---------------------------- MODULE Spec2Model ----------------------------
(***************************************************************************)
(* A model of rustex: the pattern parser (src/src/parser/mod.rs), the       *)
(* backtracking executor (src/src/executor/mod.rs) and the replace         *)
(* templates (src/src/replace/mod.rs).                                     *)
(*                                                                         *)
(* Encoding.                                                               *)
(*   - A character is a one-character string; a string is a sequence of    *)
(*     characters.  The characters of the inputs are one byte wide, so     *)
(*     byte offsets and character indexes coincide in the executor; the    *)
(*     parsed patterns also contain "é", two bytes wide in UTF-8.          *)
(*   - Option<T> is a sequence of length at most one: None is << >> and    *)
(*     Some(x) is <<x>>.                                                   *)
(*   - A node chain (a node and the nodes reached through `next`) is the   *)
(*     sequence of its nodes; the empty sequence is the null continuation. *)
(*   - usize and u32 values are kept as their two's-complement residue: a  *)
(*     negative integer k stands for 2^w + k.  0 - 1 is -1 (the value      *)
(*     usize::MAX) and -1 + 1 is 0, which is exactly wrapping arithmetic;  *)
(*     unsigned order is UGt.                                              *)
(***************************************************************************)
EXTENDS Integers, Sequences, FiniteSets, TLC

None == << >>
Some(x) == <<x>>

\* char::len_utf8 and String::len (a length in bytes).
len_utf8(ch) == IF ch = "é" THEN 2 ELSE 1

RECURSIVE StringLen(_)
StringLen(str) == IF str = << >> THEN 0 ELSE len_utf8(Head(str)) + StringLen(Tail(str))

Last(s) == s[Len(s)]
Front(s) == SubSeq(s, 1, Len(s) - 1)

\* Unsigned order on two's-complement residues.
UGt(a, b) == IF (a < 0) = (b < 0) THEN a > b ELSE a < 0

(***************************************************************************)
(* Parser                                                                  *)
(***************************************************************************)

SPECIAL_CHARS == {"(", ")", "{", "}", "[", "]", "|", "\\", "^", "$", ".", "*", "?", "+"}

is_special_char(ch) == ch \in SPECIAL_CHARS

IsDigit(ch) == ch \in {"0", "1", "2", "3", "4", "5", "6", "7", "8", "9"}

DigitVal(ch) ==
    CASE ch = "0" -> 0 [] ch = "1" -> 1 [] ch = "2" -> 2 [] ch = "3" -> 3
      [] ch = "4" -> 4 [] ch = "5" -> 5 [] ch = "6" -> 6 [] ch = "7" -> 7
      [] ch = "8" -> 8 [] ch = "9" -> 9

\* str::parse::<u32> on a non-empty string of decimal digits.
RECURSIVE ParseU32(_)
ParseU32(str) ==
    IF str = << >> THEN 0 ELSE ParseU32(Front(str)) * 10 + DigitVal(Last(str))

\* The character iterator with the parser's index: pos characters are
\* consumed; index counts the calls of next(), also those at the end.
peek(p, c) == IF c.pos < Len(p) THEN Some(p[c.pos + 1]) ELSE None

next(p, c) ==
    [pos |-> IF c.pos < Len(p) THEN c.pos + 1 ELSE c.pos, index |-> c.index + 1]

PErr(kind, ch) == <<kind, ch>>

\* A slip in escape_next: every character may be escaped.
escape_next_Any(p, c) ==
    LET ch == peek(p, c)
        c2 == next(p, c)
    IN  IF ch = None
        THEN [c |-> c2, err |-> PErr("MissingCharacterToEscape", ""), ch |-> ""]
        ELSE [c |-> c2, err |-> None, ch |-> ch[1]]

escape_next(p, c) ==
    LET ch == peek(p, c)
        c2 == next(p, c)
    IN  IF ch = None
        THEN [c |-> c2, err |-> PErr("MissingCharacterToEscape", ""), ch |-> ""]
        ELSE IF is_special_char(ch[1])
        THEN [c |-> c2, err |-> None, ch |-> ch[1]]
        ELSE [c |-> c2, err |-> PErr("UnexpectedCharErr", ch[1]), ch |-> ""]

\* (Option<char>, escaped) or an error.
next_escaped(p, c) ==
    LET ch == peek(p, c)
        c2 == next(p, c)
    IN  IF ch = None
        THEN [c |-> c2, err |-> None, ch |-> None, escaped |-> FALSE]
        ELSE IF ch[1] = "\\"
        THEN LET e == escape_next(p, c2)
             IN  [c |-> e.c, err |-> e.err, ch |-> Some(e.ch), escaped |-> TRUE]
        ELSE [c |-> c2, err |-> None, ch |-> ch, escaped |-> FALSE]

RECURSIVE parse_word_loop(_, _, _)
parse_word_loop(p, c, word) ==
    LET ch == peek(p, c)
    IN  IF ch = None \/ (is_special_char(ch[1]) /\ ch[1] # "\\")
        THEN [c |-> c, err |-> None, val |-> [t |-> "Word", w |-> word]]
        ELSE LET c2 == next(p, c)
             IN  IF ch[1] = "\\"
                 THEN LET e == escape_next(p, c2)
                      IN  IF e.err # None
                          THEN [c |-> e.c, err |-> e.err, val |-> [t |-> "Poisoned"]]
                          ELSE parse_word_loop(p, e.c, Append(word, e.ch))
                 ELSE parse_word_loop(p, c2, Append(word, ch[1]))

parse_word(p, c) == parse_word_loop(p, c, << >>)

\* The inner loop of parse_repetition_range_vals, after the ','.
RECURSIVE range_max_loop(_, _, _)
range_max_loop(p, c, max_str) ==
    LET ch == peek(p, c)
        c2 == next(p, c)
    IN  IF ch = None THEN [c |-> c2, err |-> None, max_str |-> max_str]
        ELSE IF IsDigit(ch[1]) THEN range_max_loop(p, c2, Append(max_str, ch[1]))
        ELSE IF ch[1] = "}" THEN [c |-> c2, err |-> None, max_str |-> max_str]
        ELSE [c |-> c2, err |-> PErr("UnexpectedRepetitionRangeCh", ch[1]),
              max_str |-> max_str]

\* The outer loop.  min_str and max_str are Option<String>, None being the
\* empty string here: the code creates either with its first digit.
RECURSIVE range_min_loop(_, _, _)
range_min_loop(p, c, min_str) ==
    LET ch == peek(p, c)
        c2 == next(p, c)
    IN  IF ch = None
        THEN [c |-> c2, err |-> None, min_str |-> min_str, max_str |-> << >>]
        ELSE IF IsDigit(ch[1]) THEN range_min_loop(p, c2, Append(min_str, ch[1]))
        ELSE IF ch[1] = "}"
        THEN [c |-> c2, err |-> None, min_str |-> min_str, max_str |-> << >>]
        ELSE IF ch[1] = ","
        THEN LET m == range_max_loop(p, c2, << >>)
             IN  [c |-> m.c, err |-> m.err, min_str |-> min_str, max_str |-> m.max_str]
        ELSE [c |-> c2, err |-> PErr("UnexpectedRepetitionRangeCh", ch[1]),
              min_str |-> min_str, max_str |-> << >>]

parse_repetition_range_vals(p, c) ==
    LET r == range_min_loop(p, next(p, c), << >>)
    IN  IF r.err # None THEN [c |-> r.c, err |-> r.err, min |-> 0, max |-> None]
        ELSE IF r.min_str = << >>
        THEN [c |-> r.c, err |-> PErr("MissingRepetitionRangeMin", ""),
              min |-> 0, max |-> None]
        ELSE [c |-> r.c, err |-> None, min |-> ParseU32(r.min_str),
              max |-> IF r.max_str = << >> THEN None ELSE Some(ParseU32(r.max_str))]


\* The loop of parse_group that reads the name of (?<name>...).
RECURSIVE group_name_loop(_, _, _)
group_name_loop(p, c, name) ==
    LET e == next_escaped(p, c)
    IN  IF e.err # None THEN [c |-> e.c, err |-> e.err, name |-> name]
        ELSE IF e.ch = None THEN [c |-> e.c, err |-> None, name |-> name]
        ELSE IF ~e.escaped /\ e.ch[1] = ">" THEN [c |-> e.c, err |-> None, name |-> name]
        ELSE group_name_loop(p, e.c, Append(name, e.ch[1]))

\* The head of parse_group: '(' and the optional ?: or ?<name> prefix.
parse_group_config(p, c) ==
    LET c1 == next(p, c)
    IN  IF peek(p, c1) = Some("?")
        THEN LET c2 == next(p, c1)
                 ch == peek(p, c2)
                 c3 == next(p, c2)
             IN  IF ch = Some(":")
                 THEN [c |-> c3, err |-> None, cfg |-> Some(<<"NonCapturing">>)]
                 ELSE IF ch = Some("<")
                 THEN LET n == group_name_loop(p, c3, << >>)
                      IN  [c |-> n.c, err |-> n.err, cfg |-> Some(<<"Named", n.name>>)]
                 ELSE [c |-> c3, err |-> PErr("BadGroupConfig", ""), cfg |-> None]
        ELSE [c |-> c1, err |-> None, cfg |-> None]

\* IndexSet::insert: insertion order, no duplicates.
IndexSetInsert(set, ch) ==
    IF \E i \in 1..Len(set) : set[i] = ch THEN set ELSE Append(set, ch)

RECURSIVE set_loop(_, _, _)
set_loop(p, c, set) ==
    LET e == next_escaped(p, c)
    IN  IF e.err # None THEN [c |-> e.c, err |-> e.err, set |-> set]
        ELSE IF e.ch = None
        THEN [c |-> e.c, err |-> PErr("UnterminatedCharSet", ""), set |-> set]
        ELSE IF ~e.escaped /\ e.ch[1] = "]" THEN [c |-> e.c, err |-> None, set |-> set]
        ELSE set_loop(p, e.c, IndexSetInsert(set, e.ch[1]))

\* The '[' arm of parse.
parse_set(p, c) ==
    LET c1 == next(p, c)
        inverted == peek(p, c1) = Some("^")
        c2 == IF inverted THEN next(p, c1) ELSE c1
        s == set_loop(p, c2, << >>)
    IN  [c |-> s.c, err |-> s.err,
         val |-> [t |-> "Set", set |-> s.set, inverted |-> inverted]]

chomp_greediness(p, c) ==
    IF peek(p, c) = Some("?")
    THEN [c |-> next(p, c), greedy |-> FALSE]
    ELSE [c |-> c, greedy |-> TRUE]

\* decorate_node_option on the last node of a chain (prev): the node's value
\* is taken out (Poisoned is left in its place), wrapped by the decorator as
\* a node without next, and the wrapper is written back into the node.
decorate_node_option(chain, decorator) ==
    IF chain = << >>
    THEN [err |-> PErr("UnexpectedEmptyParseNodeOption", ""), chain |-> chain]
    ELSE LET orig_node_val == Last(chain)
             res_val == [decorator EXCEPT !.node = <<orig_node_val>>]
         IN  [err |-> None, chain |-> Append(Front(chain), res_val)]

decorate_node_option_for_last_char_modifiers(chain, decorator) ==
    IF chain = << >>
    THEN [err |-> PErr("MissingLeftSideOfModifier", ""), chain |-> chain]
    ELSE LET prev == Last(chain)
             take_last_ch == prev.t = "Word" /\ StringLen(prev.w) > 1
         IN  IF ~take_last_ch THEN decorate_node_option(chain, decorator)
             ELSE LET new_node_val_word == Front(prev.w)
                      last_ch_as_str == <<Last(prev.w)>>
                      new_next == [decorator EXCEPT
                                     !.node = <<[t |-> "Word", w |-> last_ch_as_str]>>]
                  IN  [err |-> None,
                       chain |-> Front(chain)
                                   \o <<[t |-> "Word", w |-> new_node_val_word], new_next>>]

(***************************************************************************)
(* The parser as a machine.  parse is recursive (parse_group and the '|'   *)
(* arm call it); the calls in progress are the frames of `stack`, the last *)
(* frame being the running one.  A frame holds the `until` of its call,    *)
(* the chain built so far (head; prev is its last node), and what its      *)
(* caller does with the result: ctx is "top" (parse_str), "group"          *)
(* (parse_group, with the group's cfg) or "or" (the '|' arm, with the left *)
(* side it took from its own head).                                        *)
(***************************************************************************)
Frame(until, ctx, cfg, left) ==
    [until |-> until, head |-> << >>, ctx |-> ctx, cfg |-> cfg, left |-> left]

ParserInit(p) ==
    [pattern |-> p, c |-> [pos |-> 0, index |-> 0],
     stack |-> <<Frame(None, "top", None, << >>)>>,
     status |-> "run", err |-> None, head |-> << >>]

PTop(ps) == Last(ps.stack)

PFail(ps, c, err) == [ps EXCEPT !.c = c, !.status = "err", !.err = err]

\* The running frame's chain becomes `chain`.
PSetChain(ps, c, chain) ==
    [ps EXCEPT !.c = c, !.stack[Len(ps.stack)].head = chain]

\* The tail of the loop of parse: the new node is linked after prev.
PLink(ps, c, val) == PSetChain(ps, c, Append(PTop(ps).head, val))

\* What the loop of parse does next: "return" when the input ends or the
\* `until` character is next, else the arm of the match.
PKind(ps) ==
    LET ch == peek(ps.pattern, ps.c)
        top == PTop(ps)
    IN  IF ch = None \/ (top.until # None /\ ch = top.until) THEN "return"
        ELSE IF ch[1] \in {"{", "|", "[", ".", "*", "+", "?", "^", "$", "("} THEN ch[1]
        ELSE "word"

DoModifier(ps, c, decorator) ==
    LET d == decorate_node_option_for_last_char_modifiers(PTop(ps).head, decorator)
    IN  IF d.err # None THEN PFail(ps, c, d.err) ELSE PSetChain(ps, c, d.chain)

DoRange(ps) ==
    LET r == parse_repetition_range_vals(ps.pattern, ps.c)
    IN  IF r.err # None THEN PFail(ps, r.c, r.err)
        ELSE DoModifier(ps, r.c, [t |-> "RepetitionRange", node |-> << >>,
                                   min |-> r.min, max |-> r.max])

DoStar(ps) ==
    LET g == chomp_greediness(ps.pattern, next(ps.pattern, ps.c))
    IN  DoModifier(ps, g.c, [t |-> "ZeroOrMore", node |-> << >>, greedy |-> g.greedy])

DoPlus(ps) ==
    LET g == chomp_greediness(ps.pattern, next(ps.pattern, ps.c))
    IN  DoModifier(ps, g.c, [t |-> "OneOrMore", node |-> << >>, greedy |-> g.greedy])

DoOptional(ps) ==
    DoModifier(ps, next(ps.pattern, ps.c), [t |-> "Optional", node |-> << >>])

DoSet(ps) ==
    LET s == parse_set(ps.pattern, ps.c)
    IN  IF s.err # None THEN PFail(ps, s.c, s.err) ELSE PLink(ps, s.c, s.val)

DoAny(ps) == PLink(ps, next(ps.pattern, ps.c), [t |-> "Any"])

DoStart(ps) == PLink(ps, next(ps.pattern, ps.c), [t |-> "Start"])

DoEnd(ps) == PLink(ps, next(ps.pattern, ps.c), [t |-> "End"])

DoWord(ps) ==
    LET w == parse_word(ps.pattern, ps.c)
    IN  IF w.err # None THEN PFail(ps, w.c, w.err) ELSE PLink(ps, w.c, w.val)

\* '(': parse_group up to its call of parse(Some(')')).
DoGroupOpen(ps) ==
    LET g == parse_group_config(ps.pattern, ps.c)
    IN  IF g.err # None THEN PFail(ps, g.c, g.err)
        ELSE [ps EXCEPT !.c = g.c,
                        !.stack = Append(@, Frame(Some(")"), "group", g.cfg, << >>))]

\* A slip in the '|' arm: only the last node is taken as the left side.
DoOrOpen_LastOnly(ps) ==
    LET n == Len(ps.stack)
    IN  [ps EXCEPT !.c = next(ps.pattern, ps.c),
                   !.stack = Append([@ EXCEPT ![n].head = << >>],
                                    Frame(Some(")"), "or", None,
                                          IF PTop(ps).head = << >> THEN << >>
                                          ELSE <<Last(PTop(ps).head)>>))]

\* '|': the head of the running call is taken as the left side and the right
\* side is parsed by a new call of parse(Some(')')).
DoOrOpen(ps) ==
    LET n == Len(ps.stack)
    IN  [ps EXCEPT !.c = next(ps.pattern, ps.c),
                   !.stack = Append([@ EXCEPT ![n].head = << >>],
                                    Frame(Some(")"), "or", None, PTop(ps).head))]

\* parse returns Ok(head) to its caller.
DoReturn(ps) ==
    LET top == PTop(ps)
        n == Len(ps.stack)
        caller == [ps EXCEPT !.stack = Front(@)]
    IN  CASE top.ctx = "top" ->
               [ps EXCEPT !.status = "ok", !.head = top.head]
          [] top.ctx = "group" ->
               IF top.head = << >> THEN PFail(ps, ps.c, PErr("EmptyCaptureGroup", ""))
               ELSE PLink(caller, next(ps.pattern, ps.c),
                          [t |-> "Group", group |-> top.head, cfg |-> top.cfg])
          [] top.ctx = "or" ->
               IF top.head = << >> THEN PFail(ps, ps.c, PErr("MissingRightSideOfOr", ""))
               ELSE IF top.left = << >>
               THEN [ps EXCEPT !.status = "panic"]   \* left.unwrap() on None
               ELSE PSetChain(caller, ps.c,
                              <<[t |-> "Or", left |-> top.left, right |-> top.head]>>)

\* One iteration of the loop of parse (or its return).
ParserStep(ps) ==
    LET k == PKind(ps)
    IN  CASE k = "return" -> DoReturn(ps)
          [] k = "{" -> DoRange(ps)
          [] k = "|" -> DoOrOpen(ps)
          [] k = "[" -> DoSet(ps)
          [] k = "." -> DoAny(ps)
          [] k = "*" -> DoStar(ps)
          [] k = "+" -> DoPlus(ps)
          [] k = "?" -> DoOptional(ps)
          [] k = "^" -> DoStart(ps)
          [] k = "$" -> DoEnd(ps)
          [] k = "(" -> DoGroupOpen(ps)
          [] k = "word" -> DoWord(ps)

\* Parser::parse_str, for the patterns on which parse returns: a parse that
\* returns takes at most one step per character and one per call of parse.
\* A run that outlasts that is reported as "diverged".
RECURSIVE ParserRun(_, _)
ParserRun(ps, fuel) ==
    IF ps.status # "run" THEN ps
    ELSE IF fuel = 0 THEN [ps EXCEPT !.status = "diverged"]
    ELSE ParserRun(ParserStep(ps), fuel - 1)

parse_str(p) == ParserRun(ParserInit(p), 2 * Len(p) + 2)


(***************************************************************************)
(* State                                                                   *)
(***************************************************************************)
VARIABLES
    pattern,      \* the pattern string given to Parser::parse_str
    parser,       \* ParserImpl: iterator, index, the calls of parse in progress
    input,        \* ExecutorImpl::input
    build,        \* "debug" (overflow checks: arithmetic overflow panics) or "release" (it wraps)
    frontier,     \* ExecutorImpl::frontier, front first
    best_match,   \* best_match of Executor::exec
    pc,           \* "parse", "exec", "done" (exec returned Ok), "error" (Err), "panic";
                  \* for a template: "template", "replace", "replaced"
    candidates,   \* history: the result of every popped state that returned Some
    popped,       \* history: the states popped so far, each with the length of the frontier under it
    template,     \* the template string given to ReplaceSpec::parse_str
    replace_spec, \* ReplaceSpec::parts
    replaced,     \* what perform_replace returned (or that it panicked)
    waiting,      \* the locals of a second call of Executor::exec on the same program,
                  \* while the first one runs (and the first one's while the second runs)
    mixed         \* history: one call was resumed while both were under way

replace_vars == <<template, replace_spec, replaced>>

shared_vars == <<waiting, mixed>>

vars == <<pattern, parser, input, build, frontier, best_match, pc, candidates, popped,
          replace_vars, shared_vars>>

\* ParseResult::head of the parsed pattern.
program == parser.head

n == Len(input)

(***************************************************************************)
(* Executor                                                                *)
(***************************************************************************)

\* ExecResult::new
ExecResultNew(start) == [start |-> start, end |-> 0, groups |-> << >>]

\* A slip in res.or(..): the earlier partial result is dropped.
OrNew_Dropped(res, cur) == Some(ExecResultNew(cur))

\* res.or(Some(ExecResult::new(cur)))
OrNew(res, cur) == IF res # None THEN res ELSE Some(ExecResultNew(cur))

\* IndexMap::insert: a present key keeps its place and takes the new value.
GroupsInsert(groups, name, val) ==
    IF \E i \in 1..Len(groups) : groups[i].name = name
    THEN [i \in 1..Len(groups) |->
            IF groups[i].name = name THEN [name |-> name, val |-> val] ELSE groups[i]]
    ELSE Append(groups, [name |-> name, val |-> val])

RECURSIVE GroupsExtend(_, _)
GroupsExtend(groups, other) ==
    IF other = << >> THEN groups
    ELSE GroupsExtend(GroupsInsert(groups, other[1].name, other[1].val), Tail(other))

merge_groups(self, other) == [self EXCEPT !.groups = GroupsExtend(self.groups, other.groups)]

map_options(dest, src) ==
    IF dest = None THEN src
    ELSE IF src = None THEN dest
    ELSE Some(merge_groups(dest[1], src[1]))

\* MutNode::tail: the walk from the node at position curr along `next` to
\* the node that has no next.
RECURSIVE tail(_, _)
tail(chain, curr) == IF curr < Len(chain) THEN tail(chain, curr + 1) ELSE curr

\* A slip in MutNode::append: `next` of the head is replaced.
append_AfterHead(self, node) == <<Head(self)>> \o node

\* MutNode::append: `next` of the tail of self is replaced by the node (with
\* its chain).
append(self, node) == SubSeq(self, 1, tail(self, 1)) \o node

append_option_node(self, nxt) == IF nxt = None THEN self ELSE append(self, nxt)

ExecutorState(res, node, cur) == [res |-> res, node |-> node, cur |-> cur]

\* A slip in the pushes: the partial result is shared with the states
\* already in the frontier instead of being cloned for the new one.
push_front_Shared(fr, state) ==
    <<state>> \o [k \in 1..Len(fr) |-> [fr[k] EXCEPT !.res = state.res]]

push_front(fr, state) == <<state>> \o fr

\* `x - 1` and `x + 1` on usize, `a - b` on u32: with overflow checks an
\* overflow panics, without them the residue wraps.
SubPanics(a, b) == build = "debug" /\ UGt(b, a)
IncPanics(a) == build = "debug" /\ a = -1

\* A slip in find_word: the window moves whatever can_move_window says.
RECURSIVE find_word_Slides(_, _, _)
find_word_Slides(word, cur, can_move_window) ==
    LET word_n == Len(word)
    IN  IF cur + word_n > n THEN None
        ELSE IF word = SubSeq(input, cur + 1, cur + word_n)
        THEN Some(<<cur, cur + word_n - 1>>)
        ELSE find_word_Slides(word, cur + 1, can_move_window)

RECURSIVE find_word(_, _, _)
find_word(word, cur, can_move_window) ==
    LET word_n == Len(word)
    IN  IF cur + word_n > n THEN None
        ELSE IF word = SubSeq(input, cur + 1, cur + word_n)
        THEN Some(<<cur, cur + word_n - 1>>)
        ELSE IF ~can_move_window THEN None
        ELSE find_word(word, cur + 1, can_move_window)

\* What a call of ExecutorImpl::exec leaves: the frontier, the returned
\* Option<ExecResult>, the error ("" for Ok; "PoisonedNode"; "panic"), and
\* where the returned value was made: "end" (the program ran out, lines
\* 155-161), "bail" (the `return Ok(res)` of Optional and ZeroOrMore) or
\* "none" (Ok(None)).
Ret(fr, res, via) == [fr |-> fr, res |-> res, err |-> "", via |-> via]
RetNone(fr) == Ret(fr, None, "none")
RetErr(fr, err) == [fr |-> fr, res |-> None, err |-> err, via |-> "none"]

UGe(a, b) == a = b \/ UGt(a, b)

RECURSIVE exec(_, _, _, _)
RECURSIVE range_loop(_, _, _, _, _, _)

\* The "match min times" loop of the RepetitionRange arm, from iteration i.
range_loop(fr, res, to_test, cur, i, min) ==
    IF i = min THEN [fr |-> fr, res |-> res, cur |-> cur, err |-> "", failed |-> FALSE]
    ELSE LET b == exec(fr, res, to_test, cur)
         IN  IF b.err # ""
             THEN [fr |-> b.fr, res |-> res, cur |-> cur, err |-> b.err, failed |-> TRUE]
             ELSE IF b.res = None
             THEN [fr |-> b.fr, res |-> res, cur |-> cur, err |-> "", failed |-> TRUE]
             ELSE IF IncPanics(b.res[1].end)
             THEN [fr |-> b.fr, res |-> res, cur |-> cur, err |-> "panic", failed |-> TRUE]
             ELSE range_loop(b.fr, map_options(res, b.res), to_test,
                             b.res[1].end + 1, i + 1, min)

exec(fr, res, node, cur) ==
    IF node = None
    THEN IF res = None THEN RetNone(fr)
         ELSE IF SubPanics(cur, 1) THEN RetErr(fr, "panic")
         ELSE Ret(fr, Some([res[1] EXCEPT !.end = cur - 1]), "end")
    ELSE
    LET val == Head(node)
        nxt == Tail(node)
    IN  CASE val.t = "Poisoned" -> RetErr(fr, "PoisonedNode")
          [] val.t = "Any" ->
               IF cur = n THEN RetNone(fr) ELSE exec(fr, OrNew(res, cur), nxt, cur + 1)
          [] val.t = "Start" ->
               IF cur = 0 THEN exec(fr, OrNew(res, cur), nxt, cur) ELSE RetNone(fr)
          [] val.t = "End" ->
               IF cur = n THEN exec(fr, OrNew(res, cur), nxt, cur) ELSE RetNone(fr)
          [] val.t = "Word" ->
               IF UGe(cur, n) THEN RetNone(fr)
               ELSE LET f == find_word(val.w, cur, res = None)
                    IN  IF f = None THEN RetNone(fr)
                        ELSE exec(fr, OrNew(res, f[1][1]), nxt, f[1][2] + 1)
          [] val.t = "Optional" ->
               LET skip == ExecutorState(res, nxt, cur)
                   take == ExecutorState(res, append_option_node(val.node, nxt), cur)
               IN  Ret(push_front(push_front(fr, skip), take), res, "bail")
          [] val.t = "ZeroOrMore" ->
               LET skip == ExecutorState(res, nxt, cur)
                   more == ExecutorState(res,
                             <<[t |-> "OneOrMore", node |-> val.node,
                                greedy |-> val.greedy]>> \o nxt, cur)
               IN  Ret(push_front(push_front(fr, skip), more), res, "bail")
          [] val.t = "OneOrMore" ->
               LET b == exec(fr, res, val.node, cur)
                   res1 == map_options(res, b.res)
               IN  IF b.err # "" THEN RetErr(b.fr, b.err)
                   ELSE IF b.res = None THEN RetNone(b.fr)
                   ELSE IF IncPanics(b.res[1].end) THEN RetErr(b.fr, "panic")
                   ELSE
                   LET cur1 == b.res[1].end + 1
                       lazy == exec(b.fr, res1, nxt, cur1)
                       fr1 == IF val.greedy THEN b.fr ELSE lazy.fr
                       again == ExecutorState(res1,
                                  <<[t |-> "ZeroOrMore", node |-> val.node,
                                     greedy |-> val.greedy]>> \o nxt, cur1)
                   IN  IF ~val.greedy /\ lazy.err # "" THEN RetErr(lazy.fr, lazy.err)
                       ELSE IF ~val.greedy /\ lazy.res # None THEN lazy
                       ELSE RetNone(push_front(fr1, again))
          [] val.t = "RepetitionRange" ->
               LET l == range_loop(fr, res, val.node, cur, 0, val.min)
               IN  IF l.err # "" THEN RetErr(l.fr, l.err)
                   ELSE IF l.failed THEN RetNone(l.fr)
                   ELSE IF val.max # None
                   THEN IF val.min = val.max[1] THEN exec(l.fr, l.res, nxt, l.cur)
                        ELSE IF SubPanics(val.max[1], val.min) THEN RetErr(l.fr, "panic")
                        ELSE
                        LET skip == ExecutorState(l.res, nxt, l.cur)
                            again == ExecutorState(l.res,
                                       <<[t |-> "RepetitionRange", node |-> val.node,
                                          min |-> 1,
                                          max |-> Some(val.max[1] - val.min)]>> \o nxt,
                                       l.cur)
                        IN  RetNone(push_front(push_front(l.fr, skip), again))
                   ELSE RetNone(push_front(l.fr,
                          ExecutorState(l.res,
                            <<[t |-> "ZeroOrMore", node |-> val.node,
                               greedy |-> FALSE]>> \o nxt, l.cur)))
          [] val.t = "Group" ->
               LET group_end == [t |-> "GroupEnd", start |-> cur, cfg |-> val.cfg]
                   new_head == append(val.group, <<group_end>> \o nxt)
               IN  exec(fr, res, new_head, cur)
          [] val.t = "GroupEnd" ->
               IF res # None /\ val.cfg # None /\ val.cfg[1][1] = "Named"
               THEN IF SubPanics(cur, 1) THEN RetErr(fr, "panic")
                    ELSE exec(fr,
                              Some([res[1] EXCEPT !.groups =
                                      GroupsInsert(@, val.cfg[1][2], <<val.start, cur - 1>>)]),
                              nxt, cur)
               ELSE exec(fr, res, nxt, cur)
          [] val.t = "Set" ->
               IF UGe(cur, n) THEN RetNone(fr)
               ELSE LET ch == input[cur + 1]
                        found == \E i \in 1..Len(val.set) : val.set[i] = ch
                    IN  IF found # val.inverted
                        THEN exec(fr, OrNew(res, cur), nxt, cur + 1)
                        ELSE RetNone(fr)
          [] val.t = "Or" ->
               LET left == ExecutorState(res, append_option_node(val.left, nxt), cur)
                   right == ExecutorState(res, append_option_node(val.right, nxt), cur)
               IN  RetNone(push_front(push_front(fr, left), right))

\* A slip in the comparison: `<` for `>`.
UpdateBest_Reversed(best, res) ==
    IF best = None THEN res
    ELSE IF UGt(best[1].end, res[1].end) THEN res
    ELSE best

\* The comparison of Executor::exec with the running best.
UpdateBest(best, res) ==
    IF best = None THEN res
    ELSE IF UGt(res[1].end, best[1].end) THEN res
    ELSE best

(***************************************************************************)
(* Replace templates                                                       *)
(***************************************************************************)

\* The inner loop of ReplaceSpec::parse_str: the position after the run of
\* the characters '1'..='9' that starts at position i.
RECURSIVE group_num_end(_, _)
group_num_end(str, i) ==
    IF i <= Len(str) /\ str[i] \in {"1", "2", "3", "4", "5", "6", "7", "8", "9"}
    THEN group_num_end(str, i + 1)
    ELSE i

\* The loop of ReplaceSpec::parse_str from position i.
RECURSIVE template_loop(_, _, _, _)
template_loop(str, i, parts, curr_word) ==
    IF i > Len(str)
    THEN IF curr_word # None THEN Append(parts, [t |-> "String", s |-> curr_word[1]])
         ELSE parts
    ELSE IF str[i] # "$"
    THEN template_loop(str, i + 1, parts,
                       IF curr_word = None THEN Some(<<str[i]>>)
                       ELSE Some(Append(curr_word[1], str[i])))
    ELSE LET parts1 == IF curr_word # None
                       THEN Append(parts, [t |-> "String", s |-> curr_word[1]])
                       ELSE parts
             j == group_num_end(str, i + 1)
             group_num == SubSeq(str, i + 1, j - 1)
         IN  template_loop(str, j, Append(parts1, [t |-> "GroupNum", s |-> group_num]), None)

ReplaceSpec_parse_str(str) == template_loop(str, 1, << >>, None)

\* IndexMap::get
GroupsGet(groups, name) ==
    LET at == {i \in 1..Len(groups) : groups[i].name = name}
    IN  IF at = {} THEN None ELSE Some(groups[CHOOSE i \in at : TRUE].val)

\* &input[s..=e] panics when e is usize::MAX, when s is beyond e + 1 and
\* when e + 1 is beyond the input.
SlicePanics(inp, s, e) == e = -1 \/ UGt(s, e + 1) \/ UGt(e + 1, Len(inp))

\* A slip in the GroupNum arm: the reference is always emitted as text.
PartText_NoLookup(part, inp, res) ==
    IF part.t = "String" THEN part.s ELSE <<"$">> \o part.s

\* What one part appends to the accumulator of the fold.
PartText(part, inp, res) ==
    IF part.t = "String" THEN part.s
    ELSE LET val == GroupsGet(res.groups, part.s)
         IN  IF val = None THEN <<"$">> \o part.s
             ELSE SubSeq(inp, val[1][1] + 1, val[1][2] + 1)

PartPanics(part, inp, res) ==
    /\ part.t = "GroupNum"
    /\ GroupsGet(res.groups, part.s) # None
    /\ SlicePanics(inp, GroupsGet(res.groups, part.s)[1][1],
                   GroupsGet(res.groups, part.s)[1][2])

RECURSIVE replace_fold(_, _, _, _)
replace_fold(parts, inp, res, acc) ==
    IF parts = << >> THEN acc
    ELSE replace_fold(Tail(parts), inp, res, acc \o PartText(Head(parts), inp, res))

\* ReplaceSpec::perform_replace: the returned Option<String>, or a panic.
perform_replace(parts, inp, res) ==
    IF parts = << >> THEN [panic |-> FALSE, out |-> None]
    ELSE IF \E i \in 1..Len(parts) : PartPanics(parts[i], inp, res)
    THEN [panic |-> TRUE, out |-> None]
    ELSE [panic |-> FALSE, out |-> Some(replace_fold(parts, inp, res, << >>))]


(***************************************************************************)
(* Bounds and inputs                                                       *)
(***************************************************************************)
MaxPatLen == 3        \* every pattern over PatternChars up to this length is run
MaxInputLen == 3      \* every input over InputChars up to this length
MaxSteps == 20        \* states popped by one execution before the model stops following it
MaxParseLen == 3      \* every pattern over ParseChars up to this length is parsed
MaxRangeBody == 3     \* every a{body} with body over RangeChars up to this length is parsed
MaxSpin == 2          \* iterations of parse that consume nothing followed before the model stops
MaxTemplateLen == 3   \* every template over TemplateChars up to this length is parsed and rendered
MaxReplaceLen == 2    \* every input over InputChars up to this length is rendered into
MaxSharedLen == 2     \* every pair of inputs up to this length is run on one shared program

Strings(chars, len) == UNION {[1..k -> chars] : k \in 0..len}

InputChars == {"a", "b"}
PatternChars == {"a", "b", "*", "+", "?", "|", "^", "$"}
ParseChars == SPECIAL_CHARS \cup {"a", "1", ",", "é"}
RangeChars == {"1", "2", ",", "a"}

\* Longer patterns: those of tests/executor_tests.rs cut down to the input
\* alphabet, and the shapes the generated patterns are too short for.
LongPatterns ==
    { <<"^", "a", "b", "$">>,
      <<".", "*", "b">>,
      <<"(", "a", ")", "*">>,
      <<"(", "a", "b", ")", "?", "b">>,
      <<"a", "(", "b", "|", ".", ")">>,
      <<"a", "b", "?", "c">>,
      <<"a", "b", "?", "$">>,
      <<"^", "a", "?", "b">>,
      <<"a", "b", "*", "a">>,
      <<"a", "[", "a", "b", "]", "[", "^", "a", "]">>,
      <<"a", "b", "{", "2", "}", "a">>,
      <<"a", "{", "1", ",", "2", "}", "b">>,
      <<"b", "a", "{", "1", ",", "}">>,
      <<"a", "{", "2", ",", "1", "}">>,
      <<"(", "?", "<", "x", ">", "b", ")">>,
      <<"(", "?", "<", "x", ">", "[", "^", "b", "]", "+", ")", "b", "(", "?", ":", "a", ")">>,
      <<"(", "?", "<", "x", ">", "a", "b", ")", "b", "?", "a">>,
      <<"a", "(", "?", "<", "x", ">", "b", "?", ")", "a">>,
      <<"(", "?", "<", "x", ">", "^", ")">>,
      <<"(", "?", "<", "x", ">", ".", "*", "?", ")", "b", "(", "?", "<", "y", ">", ".", "+", "?", ")">>,
      <<"(", "a", "|", "b", ")", "+", "b">>,
      <<"a", "(", "b", "|", "a", ")", "(", "a", "|", "b", "b", ")">>,
      <<"(", "a", "?", ")", "+", "b">>,
      <<"a", ".", "+", "?", "b">>,
      <<"a", "(", "$", ")", "+">>,
      <<"a", "(", "b", "?", ")", "{", "1", ",", "2", "}">>,
      <<"a", ".", "*", "?", "b">>,
      <<"^", ".", "*", "?", "b">>,
      <<"a", "b", "+", "?", "b">>,
      <<"a", "+", "?", "b", "?", "b">>,
      <<"b", "{", "1", "}", "a">>,
      <<"a", "b", "|", "b">>,
      <<"(", "a", ".", ")", "b">>,
      <<"(", "?", "<", "x", ">", "a", "|", "a", "b", ")", "b", "?">>,
      <<"(", "a", "|", ".", "b", "|", "b", ")", "a">>,
      <<"(", ".", "a", ")", "?", "b">>,
      <<"a", "{", "0", ",", "1", "}", "b">> }

\* The patterns Parser::parse_str returns Ok for.
Parses(p) == parse_str(p).status = "ok"

ExecPatterns == {p \in Strings(PatternChars, MaxPatLen) \cup LongPatterns : Parses(p)}

Inputs == Strings(InputChars, MaxInputLen)

(***************************************************************************)
(* Executor::exec: one parsed pattern run on one input.                    *)
(***************************************************************************)
Init ==
    /\ pattern \in ExecPatterns
    /\ parser = parse_str(pattern)
    /\ input \in Inputs
    /\ build \in {"debug", "release"}
    /\ frontier = <<ExecutorState(None, program, 0)>>
    /\ best_match = None
    /\ pc = "exec"
    /\ candidates = << >>
    /\ popped = << >>
    /\ template = << >>
    /\ replace_spec = << >>
    /\ replaced = None
    /\ waiting = None
    /\ mixed = FALSE

\* One iteration of `while let Some(state) = executor.frontier.pop_front()`.
Step ==
    /\ pc = "exec"
    /\ frontier # << >>
    /\ Len(popped) < MaxSteps
    /\ LET state == Head(frontier)
           r == exec(Tail(frontier), state.res, state.node, state.cur)
       IN  /\ popped' = Append(popped, [state |-> state, depth |-> Len(frontier) - 1])
           /\ IF r.err # ""
              THEN /\ pc' = IF r.err = "panic" THEN "panic" ELSE "error"
                   /\ UNCHANGED <<frontier, best_match, candidates>>
              ELSE /\ frontier' = r.fr
                   /\ pc' = pc
                   /\ IF r.res = None
                      THEN UNCHANGED <<best_match, candidates>>
                      ELSE /\ best_match' = UpdateBest(best_match, r.res)
                           /\ candidates' = Append(candidates,
                                                   [res |-> r.res[1], via |-> r.via])
    /\ UNCHANGED <<pattern, parser, input, build, replace_vars, shared_vars>>

\* The frontier is empty: exec returns Ok(best_match).
Finish ==
    /\ pc = "exec"
    /\ frontier = << >>
    /\ pc' = "done"
    /\ UNCHANGED <<pattern, parser, input, build, frontier, best_match, candidates, popped,
                   replace_vars, shared_vars>>

Next == Step \/ Finish

Spec == Init /\ [][Next]_vars


(***************************************************************************)
(* What a chain matches: MatchEnds(chain, i) is the set of offsets j such  *)
(* that the chain matches input[i..j) when it starts at offset i of the    *)
(* input (^ and $ refer to the whole input).  The properties use it to say *)
(* "the span is a match of the pattern"; the executor does not.            *)
(***************************************************************************)
RECURSIVE MatchEnds(_, _)
RECURSIVE NodeEnds(_, _)
RECURSIVE RepeatEnds(_, _)
RECURSIVE TimesEnds(_, _, _)

\* Zero or more repetitions of body from any offset of from.
RepeatEnds(body, from) ==
    LET more == from \cup UNION {MatchEnds(body, j) : j \in from}
    IN  IF more = from THEN from ELSE RepeatEnds(body, more)

\* Exactly k repetitions of body from any offset of from.
TimesEnds(body, from, k) ==
    IF k = 0 THEN from
    ELSE TimesEnds(body, UNION {MatchEnds(body, j) : j \in from}, k - 1)

NodeEnds(val, i) ==
    CASE val.t = "Word" ->
           IF i + Len(val.w) <= n /\ SubSeq(input, i + 1, i + Len(val.w)) = val.w
           THEN {i + Len(val.w)} ELSE {}
      [] val.t = "Any" -> IF i < n THEN {i + 1} ELSE {}
      [] val.t = "Set" ->
           IF i < n /\ ((\E k \in 1..Len(val.set) : val.set[k] = input[i + 1]) # val.inverted)
           THEN {i + 1} ELSE {}
      [] val.t = "Start" -> IF i = 0 THEN {i} ELSE {}
      [] val.t = "End" -> IF i = n THEN {i} ELSE {}
      [] val.t = "Optional" -> {i} \cup MatchEnds(val.node, i)
      [] val.t = "ZeroOrMore" -> RepeatEnds(val.node, {i})
      [] val.t = "OneOrMore" -> RepeatEnds(val.node, MatchEnds(val.node, i))
      [] val.t = "RepetitionRange" ->
           LET least == TimesEnds(val.node, {i}, val.min)
           IN  IF val.max = None THEN RepeatEnds(val.node, least)
               ELSE IF val.max[1] < val.min THEN {}
               ELSE UNION {TimesEnds(val.node, least, k) : k \in 0..(val.max[1] - val.min)}
      [] val.t = "Group" -> MatchEnds(val.group, i)
      [] val.t = "Or" -> MatchEnds(val.left, i) \cup MatchEnds(val.right, i)
      [] val.t = "GroupEnd" -> {i}
      [] val.t = "Poisoned" -> {}

MatchEnds(chain, i) ==
    IF chain = << >> THEN {i}
    ELSE UNION {MatchEnds(Tail(chain), j) : j \in NodeEnds(Head(chain), i)}

(***************************************************************************)
(* Properties of Executor::exec                                            *)
(***************************************************************************)
Returned == pc = "done" /\ best_match # None
Match == best_match[1]

\* C1: exec returns Some only if some popped state ran its program to the
\* end (node None) with a partial result; a pattern that matches nowhere
\* gives None.
C1_SomeOnlyIfCompleted ==
    Returned => \E i \in 1..Len(candidates) : candidates[i].via = "end"

\* C2: once the frontier is empty, the returned match is a candidate whose
\* end is the (unsigned) maximum over all candidates, and the result is Some
\* as soon as one candidate was produced.
C2_LongestMatch ==
    pc = "done" =>
        /\ (best_match = None) = (candidates = << >>)
        /\ best_match # None =>
             /\ \E i \in 1..Len(candidates) : candidates[i].res = Match
             /\ \A i \in 1..Len(candidates) : ~UGt(candidates[i].res.end, Match.end)

\* C2 witness: three candidates, the best one neither the first nor the last.
C2_Witness ==
    /\ Returned
    /\ \E i, j, k \in 1..Len(candidates) :
          /\ i < j /\ j < k
          /\ UGt(candidates[j].res.end, candidates[i].res.end)
          /\ UGt(candidates[j].res.end, candidates[k].res.end)
          /\ Match = candidates[j].res

\* C3: the returned span is a match of the pattern: started at `start`, the
\* program matches exactly input[start..=end].
C3_SubstringCorrect ==
    Returned => (Match.end + 1) \in MatchEnds(program, Match.start)

\* C4: a match of a pattern that ends in $ ends at the last byte, n - 1.
C4_EndAnchor ==
    Returned /\ program # << >> /\ Last(program).t = "End" => Match.end = n - 1

\* C5: a match of a pattern that begins with ^ starts at offset 0.
C5_StartAnchor ==
    Returned /\ program # << >> /\ Head(program).t = "Start" => Match.start = 0

\* C5 witness: ^P matched with P consuming at least two characters.
C5_Witness ==
    /\ Returned
    /\ Head(program).t = "Start"
    /\ Len(program) >= 2
    /\ Match.start = 0
    /\ Match.end >= 1

\* C6: every group (gs, ge) of the returned match lies inside the match:
\* start <= gs and ge <= end.
C6_GroupScoping ==
    Returned =>
        \A i \in 1..Len(Match.groups) :
            /\ ~UGt(Match.start, Match.groups[i].val[1])
            /\ ~UGt(Match.groups[i].val[2], Match.end)

\* C7: a named group records the extent its body matched.  For a group that
\* is the first construct of the pattern the first character its body
\* consumed is the first of the match, and for a group that is the whole
\* pattern the last one is the last of the match.
C7_GroupExtent ==
    Returned /\ program # << >> /\ Head(program).t = "Group" =>
        \A i \in 1..Len(Match.groups) :
            (Head(program).cfg = Some(<<"Named", Match.groups[i].name>>)) =>
                /\ Match.groups[i].val[1] = Match.start
                /\ Len(program) = 1 => Match.groups[i].val[2] = Match.end

\* A state popped a second time while the frontier under its first pop was
\* never touched: the steps from the first pop on depend on that state alone
\* and put it back on the front, so they repeat without end.
Diverges ==
    \E i, j \in 1..Len(popped) :
        /\ i < j
        /\ popped[i].state = popped[j].state
        /\ \A k \in i..j : popped[k].depth >= popped[i].depth

\* C8: exec terminates: no execution comes back to a state it is still
\* exploring (a non-advancing repetition is not enqueued again).
C8_Terminates == ~Diverges


(***************************************************************************)
(* Parser::parse_str: one pattern parsed, one iteration of the loop of     *)
(* parse at a time.                                                        *)
(***************************************************************************)

\* a{body}: the range forms and the malformed ranges.
RangePatterns == {<<"a", "{">> \o body \o <<"}">> : body \in Strings(RangeChars, MaxRangeBody)}

\* Group prefixes and escapes the generated patterns are too short for.
ParseLongPatterns ==
    { <<"(", "?", ":", "a", ")">>,
      <<"(", "?", "<", "a", ">", "a", ")">>,
      <<"(", "?", "<", "a", "\\", ">", "a">>,
      <<"(", "?", "a", ")">>,
      <<"a", "!", "\\", "!", "a">>,
      <<"[", "^", "a", "\\", "]", "a", "]", "a", "?">>,
      <<"a", "a", "*", "?", "a", "+", "?">>,
      <<"(", "a", "|", "a", ")", "a", ")">>,
      <<"a", "|", "b", "|", "c">>,
      <<".", "a", "|", "a", "*", "b">>,
      <<"(", "a", ")", "|", "(", "(", "b", ")", "|", "(", "c", ")", "a", ")">>,
      <<"(", ".", "a", "|", "b", ")", "a">>,
      <<"(", "a", "b", "|", ".", ")">>,
      <<"a", "\\", "*", "a", "\\", "\\">>,
      <<"[", "\\", "]", "a", "\\", "*", "]">>,
      <<"[", "a", "\\", "a", "]">>,
      <<"[", "a", "\\", "\\", "a", "\\">> }

ParsePatterns ==
    Strings(ParseChars, MaxParseLen) \cup RangePatterns \cup ParseLongPatterns \cup LongPatterns

\* The empty words of the running chain: one per iteration of parse that
\* consumed nothing.
Spins(ps) ==
    Cardinality({i \in 1..Len(PTop(ps).head) :
                   PTop(ps).head[i].t = "Word" /\ PTop(ps).head[i].w = << >>})

InitParse ==
    /\ pattern \in ParsePatterns
    /\ parser = ParserInit(pattern)
    /\ input = << >>
    /\ build = "debug"
    /\ frontier = << >>
    /\ best_match = None
    /\ pc = "parse"
    /\ candidates = << >>
    /\ popped = << >>
    /\ template = << >>
    /\ replace_spec = << >>
    /\ replaced = None
    /\ waiting = None
    /\ mixed = FALSE

Parsing(kind) ==
    /\ pc = "parse"
    /\ parser.status = "run"
    /\ Spins(parser) < MaxSpin
    /\ PKind(parser) = kind
    /\ UNCHANGED <<pattern, input, build, frontier, best_match, pc, candidates, popped,
                   replace_vars, shared_vars>>

ParseRange == Parsing("{") /\ parser' = DoRange(parser)
ParseOr == Parsing("|") /\ parser' = DoOrOpen(parser)
ParseSet == Parsing("[") /\ parser' = DoSet(parser)
ParseAny == Parsing(".") /\ parser' = DoAny(parser)
ParseStar == Parsing("*") /\ parser' = DoStar(parser)
ParsePlus == Parsing("+") /\ parser' = DoPlus(parser)
ParseOptional == Parsing("?") /\ parser' = DoOptional(parser)
ParseStart == Parsing("^") /\ parser' = DoStart(parser)
ParseEnd == Parsing("$") /\ parser' = DoEnd(parser)
ParseGroup == Parsing("(") /\ parser' = DoGroupOpen(parser)
ParseWord == Parsing("word") /\ parser' = DoWord(parser)
ParseReturn == Parsing("return") /\ parser' = DoReturn(parser)

NextParse ==
    \/ ParseRange \/ ParseOr \/ ParseSet \/ ParseAny \/ ParseStar \/ ParsePlus
    \/ ParseOptional \/ ParseStart \/ ParseEnd \/ ParseGroup \/ ParseWord
    \/ ParseReturn

SpecParse == InitParse /\ [][NextParse]_vars

(***************************************************************************)
(* Properties of Parser::parse_str                                         *)
(***************************************************************************)

\* C9: the parser is total: every iteration of the loop of parse consumes
\* at least one character of the pattern, and parse never aborts (panics).
C9_ParserTotal ==
    [][ /\ parser'.status # "panic"
        /\ (parser.status = "run" /\ PKind(parser) # "return")
              => parser'.c.pos > parser.c.pos ]_vars

\* The text between the braces of a pattern a{body}.
RangeBody == SubSeq(pattern, 3, Len(pattern) - 1)
AllDigits(str) == str # << >> /\ \A i \in 1..Len(str) : IsDigit(str[i])
Commas(str) == {i \in 1..Len(str) : str[i] = ","}

\* What the parser made of the range of a{body}: <<min, max>>.
ParsedRange == <<Head(program).min, Head(program).max>>
IsRange == parser.status = "ok" /\ Len(program) = 1 /\ Head(program).t = "RepetitionRange"
ParsedErr == IF parser.status = "err" THEN parser.err[1] ELSE ""

\* C10: {m} is min = m, max = Some(m); {m,} is min = m, max = None; {m,n} is
\* min = m, max = Some(n); no digits before ',' or '}' is
\* MissingRepetitionRangeMin; another character in the braces is
\* UnexpectedRepetitionRangeCh.
C10_RangeSyntax ==
    (pattern \in RangePatterns /\ parser.status # "run") =>
        LET body == RangeBody
            comma == IF Commas(body) = {} THEN 0
                     ELSE CHOOSE i \in Commas(body) : \A k \in Commas(body) : i <= k
            m == SubSeq(body, 1, comma - 1)
            rest == SubSeq(body, comma + 1, Len(body))
        IN  CASE \E i \in 1..Len(body) : ~IsDigit(body[i]) /\ body[i] # "," ->
                   ParsedErr = "UnexpectedRepetitionRangeCh"
              [] AllDigits(body) ->
                   IsRange /\ ParsedRange = <<ParseU32(body), Some(ParseU32(body))>>
              [] comma > 0 /\ AllDigits(m) /\ rest = << >> ->
                   IsRange /\ ParsedRange = <<ParseU32(m), None>>
              [] comma > 0 /\ AllDigits(m) /\ AllDigits(rest) ->
                   IsRange /\ ParsedRange = <<ParseU32(m), Some(ParseU32(rest))>>
              [] body = << >> \/ (comma = 1 /\ (rest = << >> \/ AllDigits(rest))) ->
                   ParsedErr = "MissingRepetitionRangeMin"
              [] OTHER -> TRUE


\* Every node of a chain, those inside quantifiers, groups and alternations
\* included.
RECURSIVE Nodes(_)
Nodes(chain) ==
    IF chain = << >> THEN {}
    ELSE LET val == Head(chain)
             inner == CASE val.t \in {"Optional", "ZeroOrMore", "OneOrMore",
                                      "RepetitionRange"} -> Nodes(val.node)
                        [] val.t = "Group" -> Nodes(val.group)
                        [] val.t = "Or" -> Nodes(val.left) \cup Nodes(val.right)
                        [] OTHER -> {}
         IN  {val} \cup inner \cup Nodes(Tail(chain))

\* C11: a parsed program has min <= max in every range whose max is set (a
\* range such as {2,1} is rejected by the parser), so that max - min does
\* not underflow in the executor.
RangesOrdered(chain) ==
    \A val \in Nodes(chain) :
        (val.t = "RepetitionRange" /\ val.max # None) => val.min <= val.max[1]

C11_RangeOrdered == parser.status = "ok" => RangesOrdered(program)

\* C12: exec returns Ok for every pattern and input, and `cursor - 1` is
\* never computed at cursor 0: no panic, and no end (of a match or of a
\* group) that is the wrapped value usize::MAX.  Programs with a range whose
\* max is below its min are left to C11.
C12_NoUnderflow ==
    RangesOrdered(program) =>
        /\ pc \notin {"panic", "error"}
        /\ \A i \in 1..Len(candidates) :
              /\ candidates[i].res.end # -1
              /\ \A g \in 1..Len(candidates[i].res.groups) :
                    candidates[i].res.groups[g].val[2] # -1


\* The node a quantifier character makes.
QuantifierOf(kind) ==
    CASE kind = "*" -> "ZeroOrMore" [] kind = "+" -> "OneOrMore"
      [] kind = "?" -> "Optional" [] kind = "{" -> "RepetitionRange"

\* C13: a quantifier that follows a literal of two or more characters leaves
\* a literal of all but the last character, followed by the quantifier on a
\* one-character literal of the last character; after a one-character
\* literal or any other node it wraps that node in place.
C13_LastCharBinding ==
    [][ (/\ parser.status = "run"
         /\ PKind(parser) \in {"*", "+", "?", "{"}
         /\ parser'.status = "run"
         /\ PTop(parser).head # << >>)
        => LET chain == PTop(parser).head
               prev == Last(chain)
               chain2 == PTop(parser').head
               q == Last(chain2)
           IN  /\ q.t = QuantifierOf(PKind(parser))
               /\ IF prev.t = "Word" /\ Len(prev.w) >= 2
                  THEN /\ chain2 = Front(chain) \o <<[t |-> "Word", w |-> Front(prev.w)], q>>
                       /\ q.node = <<[t |-> "Word", w |-> <<Last(prev.w)>>]>>
                  ELSE /\ chain2 = Front(chain) \o <<q>>
                       /\ q.node = <<prev>> ]_vars


\* The first '|' of a pattern outside every group, 0 when there is none or
\* when a class, an escape or a range comes before it.
RECURSIVE FirstBar(_, _, _)
FirstBar(p, i, depth) ==
    IF i > Len(p) \/ p[i] \in {"[", "\\", "{"} THEN 0
    ELSE IF p[i] = "(" THEN FirstBar(p, i + 1, depth + 1)
    ELSE IF p[i] = ")" THEN IF depth = 0 THEN 0 ELSE FirstBar(p, i + 1, depth - 1)
    ELSE IF p[i] = "|" /\ depth = 0 THEN i
    ELSE FirstBar(p, i + 1, depth)

\* No chain of the program holds an alternation next to another node.
RECURSIVE OrAlone(_)
OrAlone(chain) ==
    /\ (\E i \in 1..Len(chain) : chain[i].t = "Or") => Len(chain) = 1
    /\ \A i \in 1..Len(chain) :
          CASE chain[i].t \in {"Optional", "ZeroOrMore", "OneOrMore",
                               "RepetitionRange"} -> OrAlone(chain[i].node)
            [] chain[i].t = "Group" -> OrAlone(chain[i].group)
            [] chain[i].t = "Or" -> OrAlone(chain[i].left) /\ OrAlone(chain[i].right)
            [] OTHER -> TRUE

\* The text between the parentheses of a pattern (q).
Inside(p) == SubSeq(p, 2, Len(p) - 1)

\* C14: at '|' the whole chain of the current group becomes the left side
\* and the rest of the group the right side, the alternation being the only
\* node of the group's chain: a pattern l|r parses to Or(parse l, parse r), a
\* pattern (l|r) to a group of that, and a|b|c to Or(a, Or(b, c)).
C14_OrSplitsGroup ==
    parser.status = "ok" =>
        /\ OrAlone(program)
        /\ LET k == FirstBar(pattern, 1, 0)
           IN  k # 0 =>
                 program = <<[t |-> "Or",
                              left |-> parse_str(SubSeq(pattern, 1, k - 1)).head,
                              right |-> parse_str(SubSeq(pattern, k + 1, Len(pattern))).head]>>
        /\ (/\ Len(pattern) >= 2
            /\ Head(pattern) = "(" /\ Last(pattern) = ")"
            /\ FirstBar(Inside(pattern), 1, 0) # 0
            /\ parse_str(Inside(pattern)).status = "ok")
           => program = <<[t |-> "Group", group |-> parse_str(Inside(pattern)).head,
                           cfg |-> None]>>

\* C14 witness: a|b|c parsed, the second alternation inside the right side
\* of the first, and a left side of more than one node.
C14_Witness ==
    /\ parser.status = "ok"
    /\ Len(program) = 1
    /\ Head(program).t = "Or"
    /\ \/ Head(Head(program).right).t = "Or"
       \/ Len(Head(program).left) >= 2


\* The fourteen metacharacters of the pattern language.
Metacharacters == {"(", ")", "{", "}", "[", "]", "|", "\\", "^", "$", ".", "*", "?", "+"}

\* A text of plain characters and escapes read from position i: the
\* characters it denotes, or the error of its first bad escape.  `plain`
\* is the set of the characters that stand for themselves; the reading
\* stops (ok is FALSE) at position `at`, the first other character.
RECURSIVE Unescape(_, _, _, _)
Unescape(p, i, plain, w) ==
    IF i > Len(p) THEN [ok |-> TRUE, err |-> None, w |-> w, at |-> i]
    ELSE IF p[i] = "\\"
    THEN IF i = Len(p)
         THEN [ok |-> TRUE, err |-> <<"MissingCharacterToEscape", "">>, w |-> w, at |-> i]
         ELSE IF p[i + 1] \in Metacharacters
         THEN Unescape(p, i + 2, plain, Append(w, p[i + 1]))
         ELSE [ok |-> TRUE, err |-> <<"UnexpectedCharErr", p[i + 1]>>, w |-> w, at |-> i]
    ELSE IF p[i] \in plain THEN Unescape(p, i + 1, plain, Append(w, p[i]))
    ELSE [ok |-> FALSE, err |-> None, w |-> w, at |-> i]

\* The characters of a pattern.
Chars(p) == {p[i] : i \in 1..Len(p)}

\* The members of a class in the order of their first occurrence.
RECURSIVE Members(_)
Members(w) ==
    IF w = << >> THEN << >>
    ELSE LET m == Members(Front(w))
         IN  IF \E i \in 1..Len(m) : m[i] = Last(w) THEN m ELSE Append(m, Last(w))

\* C15: \X with X a metacharacter is the literal character X in the current
\* literal or class; \X with another X is the error UnexpectedCharErr(X); a
\* '\' at the end of the pattern is the error MissingCharacterToEscape.
C15_Escapes ==
    parser.status # "run" =>
        /\ LET u == Unescape(pattern, 1, Chars(pattern) \ Metacharacters, << >>)
           IN  (pattern # << >> /\ u.ok) =>
                  IF u.err = None
                  THEN parser.status = "ok" /\ program = <<[t |-> "Word", w |-> u.w]>>
                  ELSE parser.status = "err" /\ parser.err = u.err
        /\ (Len(pattern) >= 2 /\ Head(pattern) = "[" /\ pattern[2] # "^") =>
              LET u == Unescape(pattern, 2, Chars(pattern) \ {"]", "\\"}, << >>)
              IN  IF u.err # None THEN parser.status = "err" /\ parser.err = u.err
                  ELSE (~u.ok /\ u.at = Len(pattern)) =>
                          /\ parser.status = "ok"
                          /\ program = <<[t |-> "Set", set |-> Members(u.w),
                                          inverted |-> FALSE]>>

\* C15 witness: an escaped metacharacter in the middle of a parsed literal,
\* or as a member of a parsed class next to other members.
C15_Witness ==
    /\ parser.status = "ok"
    /\ \E i \in 1..Len(pattern) : pattern[i] = "\\"
    /\ Len(program) = 1
    /\ \/ /\ Head(program).t = "Word"
          /\ \E i \in 2..(Len(Head(program).w) - 1) : Head(program).w[i] \in Metacharacters
       \/ /\ Head(program).t = "Set"
          /\ Len(Head(program).set) >= 2
          /\ Head(program).set[1] = "]"


\* The offsets at which w occurs in the input.
Occurrences(w) == {i \in 0..(n - Len(w)) : SubSeq(input, i + 1, i + Len(w)) = w}
FirstOccurrence(w) == CHOOSE i \in Occurrences(w) : \A k \in Occurrences(w) : i <= k

LazyAt ==
    LET at == {i \in 1..(Len(program) - 1) :
                 /\ program[i].t \in {"ZeroOrMore", "OneOrMore"}
                 /\ ~program[i].greedy
                 /\ \A k \in 1..(i - 1) :
                       program[k].t \in {"Word", "Any", "Set", "Start", "End"}}
    IN  IF at = {} THEN 0 ELSE CHOOSE i \in at : \A k \in at : i <= k

\* The ends of the matches that start at `start` and repeat the lazy
\* quantifier at index q exactly k times.
EndsWithTimes(q, start, k) ==
    LET before == MatchEnds(SubSeq(program, 1, q - 1), start)
        after == TimesEnds(program[q].node, before, k)
    IN  UNION {MatchEnds(SubSeq(program, q + 1, Len(program)), j) : j \in after}

\* C17: a lazy * or + followed by a continuation takes the fewest
\* repetitions for which the rest of the pattern matches, and the returned
\* match is one with that number of repetitions.
C17_LazyMinimal ==
    (Returned /\ LazyAt # 0) =>
        LET q == LazyAt
            least == IF program[q].t = "OneOrMore" THEN 1 ELSE 0
            fit == {k \in least..(n + 1) : EndsWithTimes(q, Match.start, k) # {}}
        IN  fit # {} =>
              LET fewest == CHOOSE k \in fit : \A k2 \in fit : k <= k2
              IN  (Match.end + 1) \in EndsWithTimes(q, Match.start, fewest)


(***************************************************************************)
(* ReplaceSpec: one template parsed, then rendered against one input and   *)
(* one match result.                                                       *)
(***************************************************************************)
TemplateChars == {"$", "1", "0", "x"}

Templates == Strings(TemplateChars, MaxTemplateLen)

ReplaceInputs == Strings(InputChars, MaxReplaceLen)

\* The spans (start, end) the executor records for a group in an input of
\* length len: start <= end + 1 <= len, and (0, usize::MAX), the group that
\* matched nothing at offset 0 when `cur - 1` wraps.
Spans(len) == {<<s, e>> \in (0..len) \X (-1..(len - 1)) : s <= e + 1}

\* Match results: no group, one group named 1 or 10, the groups 2 and 1.
MatchGroups(len) ==
    {<< >>}
      \cup {<<[name |-> nm, val |-> sp]>> : nm \in {<<"1">>, <<"1", "0">>}, sp \in Spans(len)}
      \cup {<<[name |-> <<"2">>, val |-> sp], [name |-> <<"1">>, val |-> <<0, len - 1>>]>> :
              sp \in Spans(len)}

InitReplace ==
    /\ template \in Templates
    /\ input \in ReplaceInputs
    /\ best_match \in {Some([start |-> 0, end |-> Len(input) - 1, groups |-> g]) :
                         g \in MatchGroups(Len(input))}
    /\ pc = "template"
    /\ replace_spec = << >>
    /\ replaced = None
    /\ waiting = None
    /\ mixed = FALSE
    /\ pattern = << >>
    /\ parser = ParserInit(<< >>)
    /\ build = "release"
    /\ frontier = << >>
    /\ candidates = << >>
    /\ popped = << >>

\* ReplaceSpec::parse_str(template)
ParseTemplate ==
    /\ pc = "template"
    /\ replace_spec' = ReplaceSpec_parse_str(template)
    /\ pc' = "replace"
    /\ UNCHANGED <<pattern, parser, input, build, frontier, best_match, candidates, popped,
                   template, replaced, shared_vars>>

\* spec.perform_replace(input, &exec_res)
PerformReplace ==
    /\ pc = "replace"
    /\ replaced' = perform_replace(replace_spec, input, best_match[1])
    /\ pc' = "replaced"
    /\ UNCHANGED <<pattern, parser, input, build, frontier, best_match, candidates, popped,
                   template, replace_spec, shared_vars>>

NextReplace == ParseTemplate \/ PerformReplace

SpecReplace == InitReplace /\ [][NextReplace]_vars

(***************************************************************************)
(* Properties of ReplaceSpec                                               *)
(***************************************************************************)
Digits == {"0", "1", "2", "3", "4", "5", "6", "7", "8", "9"}

\* The position after the run of decimal digits that starts at position i.
RECURSIVE DigitRunEnd(_, _)
DigitRunEnd(str, i) ==
    IF i <= Len(str) /\ str[i] \in Digits THEN DigitRunEnd(str, i + 1) ELSE i

\* What a template renders to, read from its text: a character other than
\* '$' as itself, $N (N the digit run after '$') as the text of group N, or
\* as $N itself when the match has no group N.
RECURSIVE Rendering(_, _)
Rendering(str, i) ==
    IF i > Len(str) THEN << >>
    ELSE IF str[i] # "$" THEN <<str[i]>> \o Rendering(str, i + 1)
    ELSE LET j == DigitRunEnd(str, i + 1)
             name == SubSeq(str, i + 1, j - 1)
             val == GroupsGet(Match.groups, name)
         IN  (IF val = None THEN <<"$">> \o name
              ELSE SubSeq(input, val[1][1] + 1, val[1][2] + 1)) \o Rendering(str, j)

\* Every group of the match is a span of the input.
GroupsInInput ==
    \A i \in 1..Len(Match.groups) :
        ~SlicePanics(input, Match.groups[i].val[1], Match.groups[i].val[2])

\* C18: perform_replace emits the literal segments unchanged, the text
\* input[s..=e] for a reference $N to a group N -> (s, e) of the match and
\* the text $N for a reference to a group the match does not have; the
\* empty template (no parts) renders None.  The templates are those whose
\* references hold no digit 0 (the parts of the others are C19's matter).
C18_Rendering ==
    (pc = "replaced" /\ GroupsInInput /\ "0" \notin Chars(template)) =>
        /\ ~replaced.panic
        /\ replaced.out = IF template = << >> THEN None
                          ELSE Some(Rendering(template, 1))

\* C18 witness: the template $1 rendered to a non-empty group text that is
\* not the whole input.
C18_Witness ==
    /\ pc = "replaced"
    /\ template = <<"$", "1">>
    /\ GroupsGet(Match.groups, <<"1">>) # None
    /\ replaced.out # None
    /\ Len(replaced.out[1]) = 1
    /\ Len(input) = 2

\* C19: after '$' the group name is the maximal run of decimal digits 0..9
\* and the first other character ends it: the parts are the references and
\* the literal segments of the template in that reading.
RECURSIVE TemplateParts(_, _, _)
TemplateParts(str, i, word) ==
    LET flush == IF word = << >> THEN << >> ELSE <<[t |-> "String", s |-> word]>>
    IN  IF i > Len(str) THEN flush
        ELSE IF str[i] # "$" THEN TemplateParts(str, i + 1, Append(word, str[i]))
        ELSE LET j == DigitRunEnd(str, i + 1)
             IN  flush \o <<[t |-> "GroupNum", s |-> SubSeq(str, i + 1, j - 1)]>>
                       \o TemplateParts(str, j, << >>)

C19_TemplateParsing ==
    pc \in {"replace", "replaced"} => replace_spec = TemplateParts(template, 1, << >>)


(***************************************************************************)
(* Two calls of Executor::exec on one ParseResult, their iterations        *)
(* interleaved.  The variables of the executor hold the locals of the call *)
(* that runs; `waiting` holds those of the call that waits.                *)
(***************************************************************************)
SharedPatterns ==
    { <<"a", "?", "b">>,
      <<"a", "|", "a", "b">>,
      <<"^", "a", "*">>,
      <<".", "*", "b">>,
      <<"b", "+", "?", "a">>,
      <<"a", "{", "1", ",", "2", "}", "b">>,
      <<"(", "a", "|", "b", ")", "+", "b">>,
      <<"(", "?", "<", "x", ">", "a", "+", ")", "b">>,
      <<"(", "?", "<", "x", ">", "a", "b", ")", "b", "?", "a">> }

SharedInputs == Strings(InputChars, MaxSharedLen)

\* The best match is not a local of the call: the call that is put aside
\* is left with the best match of the call that resumes.
Locals_SharedBest ==
    [input |-> input, frontier |-> frontier, best_match |-> waiting.best_match, pc |-> pc,
     candidates |-> candidates, popped |-> popped]

\* What one call of Executor::exec owns: its input, its ExecutorImpl (the
\* frontier) and its best_match.
Locals ==
    [input |-> input, frontier |-> frontier, best_match |-> best_match, pc |-> pc,
     candidates |-> candidates, popped |-> popped]

InitShared ==
    /\ pattern \in SharedPatterns
    /\ parser = parse_str(pattern)
    /\ input \in SharedInputs
    /\ build \in {"debug", "release"}
    /\ frontier = <<ExecutorState(None, program, 0)>>
    /\ best_match = None
    /\ pc = "exec"
    /\ candidates = << >>
    /\ popped = << >>
    /\ template = << >>
    /\ replace_spec = << >>
    /\ replaced = None
    /\ waiting \in {[input |-> i2, frontier |-> <<ExecutorState(None, program, 0)>>,
                   best_match |-> None, pc |-> "exec", candidates |-> << >>,
                   popped |-> << >>] : i2 \in SharedInputs}
    /\ mixed = FALSE

\* The call that runs is put aside and the other one resumes.
Switch ==
    /\ waiting' = Locals
    /\ input' = waiting.input
    /\ frontier' = waiting.frontier
    /\ best_match' = waiting.best_match
    /\ pc' = waiting.pc
    /\ candidates' = waiting.candidates
    /\ popped' = waiting.popped
    /\ mixed' = (mixed \/ (/\ pc = "exec" /\ popped # << >>
                           /\ waiting.pc = "exec" /\ waiting.popped # << >>))
    /\ UNCHANGED <<pattern, parser, build, replace_vars>>

NextShared == Step \/ Finish \/ Switch

SpecShared == InitShared /\ [][NextShared]_vars

\* Executor::exec run on its own from a frontier and a best match: how it
\* ends and what it returns.
RECURSIVE RunAlone(_, _, _)
RunAlone(fr, best, fuel) ==
    IF fr = << >> THEN [pc |-> "done", best_match |-> best]
    ELSE IF fuel = 0 THEN [pc |-> "exec", best_match |-> best]
    ELSE LET state == Head(fr)
             r == exec(Tail(fr), state.res, state.node, state.cur)
         IN  IF r.err # ""
             THEN [pc |-> IF r.err = "panic" THEN "panic" ELSE "error", best_match |-> best]
             ELSE RunAlone(r.fr, IF r.res = None THEN best ELSE UpdateBest(best, r.res),
                           fuel - 1)

PoppedAt(i, t) ==
    /\ popped[i].state.node # None
    /\ Head(popped[i].state.node).t = t

\* What follows the first node of a state: its continuation.
Continuation(st) == Tail(st.node)

\* For a state at a * node: the state that stops here (the body is skipped
\* and the continuation runs), and the state that takes one more repetition.
StopHere(st) == ExecutorState(st.res, Continuation(st), st.cur)

OneMore(st) ==
    ExecutorState(st.res,
                  <<[t |-> "OneOrMore", node |-> Head(st.node).node,
                     greedy |-> Head(st.node).greedy]>> \o Continuation(st),
                  st.cur)

\* C21: greediness is the order of exploration at a * node: after a greedy
\* * the state explored next is the one that takes one more repetition,
\* after a lazy * it is the one that stops here.
C21_GreedinessOrder ==
    \A i \in 1..(Len(popped) - 1) :
        PoppedAt(i, "ZeroOrMore") =>
            popped[i + 1].state = IF Head(popped[i].state.node).greedy
                                  THEN OneMore(popped[i].state)
                                  ELSE StopHere(popped[i].state)

\* What ExecutorImpl::exec does with a popped state, seen apart from the
\* states that were under it in the frontier: the states it pushes (front
\* first), what it returns, and where the returned value was made.
Outcome(st) == exec(<< >>, st.res, st.node, st.cur)

\* For a state at a + node whose body matches once: the partial result and
\* the cursor after that repetition, and the state that goes on as a *.
BodyOnce(st) == exec(<< >>, st.res, Head(st.node).node, st.cur)

AsStar(st) ==
    ExecutorState(map_options(st.res, BodyOnce(st).res),
                  <<[t |-> "ZeroOrMore", node |-> Head(st.node).node,
                     greedy |-> Head(st.node).greedy]>> \o Continuation(st),
                  BodyOnce(st).res[1].end + 1)

\* C22: a lazy + whose body matched once returns a result only when the
\* continuation ran through to the end of the program; in every other case
\* it goes on as a *, so that further repetitions are explored.
C22_LazyPlus ==
    \A i \in 1..Len(popped) :
        LET st == popped[i].state
        IN  (/\ PoppedAt(i, "OneOrMore")
             /\ ~Head(st.node).greedy
             /\ BodyOnce(st).err = "" /\ BodyOnce(st).via = "end"
             /\ Outcome(st).err = "")
            => /\ Outcome(st).res # None => Outcome(st).via = "end"
               /\ Outcome(st).via # "end" =>
                    \E k \in 1..Len(Outcome(st).fr) : Outcome(st).fr[k] = AsStar(st)

\* For a state at an | node: the state that runs the left side and then the
\* continuation, and the one that runs the right side and then the
\* continuation, both from the cursor and the partial result of the state.
TakeLeft(st) ==
    ExecutorState(st.res, append_option_node(Head(st.node).left, Continuation(st)), st.cur)

TakeRight(st) ==
    ExecutorState(st.res, append_option_node(Head(st.node).right, Continuation(st)), st.cur)

\* C23: at an | node both sides, each followed by the continuation, are
\* explored from the same cursor and partial result, and the left side is
\* explored before the right one: the state explored next is the left one.
C23_AltOrder ==
    \A i \in 1..Len(popped) :
        PoppedAt(i, "Or") =>
            /\ i < Len(popped) => popped[i + 1].state = TakeLeft(popped[i].state)
            /\ pc = "done" =>
                 /\ \E j \in (i + 1)..Len(popped) : popped[j].state = TakeLeft(popped[i].state)
                 /\ \E j \in (i + 1)..Len(popped) : popped[j].state = TakeRight(popped[i].state)

\* The index of the range of the program's own chain, when it repeats one
\* literal character and only literals, '.', classes and anchors stand around
\* it; 0 when the program has no such range.
RangeAt ==
    LET at == {i \in 1..Len(program) :
                 /\ program[i].t = "RepetitionRange"
                 /\ Len(program[i].node) = 1
                 /\ program[i].node[1].t = "Word"
                 /\ Len(program[i].node[1].w) = 1
                 /\ \A k \in (1..Len(program)) \ {i} :
                       program[k].t \in {"Word", "Any", "Set", "Start", "End"}}
    IN  IF at = {} THEN 0 ELSE CHOOSE i \in at : TRUE

\* The range as the pattern writes it, <<min, max>>: {m} is m to m, {m,} is
\* m and more, {m,n} is m to n.
WrittenRange ==
    LET open == CHOOSE i \in 1..Len(pattern) : pattern[i] = "{"
        close == CHOOSE i \in 1..Len(pattern) : pattern[i] = "}"
        body == SubSeq(pattern, open + 1, close - 1)
        comma == IF Commas(body) = {} THEN 0 ELSE CHOOSE i \in Commas(body) : TRUE
        m == SubSeq(body, 1, comma - 1)
        rest == SubSeq(body, comma + 1, Len(body))
    IN  IF comma = 0 THEN <<ParseU32(body), Some(ParseU32(body))>>
        ELSE IF rest = << >> THEN <<ParseU32(m), None>>
        ELSE <<ParseU32(m), Some(ParseU32(rest))>>

\* The numbers of repetitions a range <<min, max>> allows on this input.
Repetitions(range) ==
    {k \in 0..(n + 1) : k >= range[1] /\ (range[2] # None => k <= range[2][1])}

\* C24: a candidate that went through the range x{m}, x{m,} or x{m,n} (with
\* m <= n) of a pattern matched x a number k of consecutive times that the
\* range allows: k >= m always, k = m for {m}, k <= n for {m,n}.
C24_RangeBounds ==
    \A c \in 1..Len(candidates) :
        (/\ RangeAt # 0
         /\ candidates[c].via = "end"
         /\ WrittenRange[2] # None => WrittenRange[1] <= WrittenRange[2][1])
        => \E k \in Repetitions(WrittenRange) :
              (candidates[c].res.end + 1)
                 \in EndsWithTimes(RangeAt, candidates[c].res.start, k)

\* The index of the first quantifier (+, * or a range) of the program's own
\* chain whose body branches (holds an |, a ? or a *) and that other nodes
\* follow; 0 when the program has none.
BranchingAt ==
    LET at == {i \in 1..(Len(program) - 1) :
                 /\ program[i].t \in {"OneOrMore", "ZeroOrMore", "RepetitionRange"}
                 /\ \E v \in Nodes(program[i].node) :
                       v.t \in {"Or", "Optional", "ZeroOrMore"}}
    IN  IF at = {} THEN 0 ELSE CHOOSE i \in at : \A k \in at : i <= k

IsSuffix(ending, chain) ==
    /\ Len(ending) <= Len(chain)
    /\ SubSeq(chain, Len(chain) - Len(ending) + 1, Len(chain)) = ending

\* C25: a quantifier whose body branches keeps its continuation: every
\* state explored still runs the nodes that follow the quantifier (they end
\* its chain), or is already among them, so that none completes after the
\* body alone.
C25_KeepsContinuation ==
    BranchingAt # 0 =>
        LET following == SubSeq(program, BranchingAt + 1, Len(program))
        IN  \A i \in 1..Len(popped) :
                LET chain == IF popped[i].state.node = None THEN << >>
                             ELSE popped[i].state.node
                IN  IsSuffix(following, chain) \/ IsSuffix(chain, following)

\* C26: among the candidates with the same end, the match returned is the
\* one that starts earliest, whatever the order they were found in.  (Runs
\* in which every candidate was made by a state that ran its chain to the
\* end.)
C26_TieEarliestStart ==
    (Returned /\ \A c \in 1..Len(candidates) : candidates[c].via = "end") =>
        \A c \in 1..Len(candidates) :
            candidates[c].res.end = Match.end => ~UGt(Match.start, candidates[c].res.start)

\* The states a popped state pushed, front first, as chains.
PushedChains(st) == [k \in 1..Len(Outcome(st).fr) |-> Outcome(st).fr[k].node]

\* For a state at a group: the chain the group is executed as, the nodes of
\* the group, its GroupEnd and the continuation.
Spliced(st) ==
    Head(st.node).group
       \o <<[t |-> "GroupEnd", start |-> st.cur, cfg |-> Head(st.node).cfg]>>
       \o Continuation(st)

GroupNames(chain) ==
    {v.cfg[1][2] : v \in {u \in Nodes(chain) : /\ u.t \in {"Group", "GroupEnd"}
                                               /\ u.cfg # None
                                               /\ u.cfg[1][1] = "Named"}}

\* The entries of the groups of a partial result.
GroupsOf(res) ==
    IF res = None THEN {} ELSE {res[1].groups[k] : k \in 1..Len(res[1].groups)}

\* A result that came out of the call on state st differs from the partial
\* result of st only by insertions made at a GroupEnd of the chain of st: an
\* entry that is new closes a named group of the chain at or after the
\* cursor of st, and an entry that is gone was replaced under its name.
OnlyInserted(st, res) ==
    /\ \A g \in GroupsOf(res) \ GroupsOf(st.res) :
          /\ g.name \in GroupNames(st.node)
          /\ ~UGt(st.cur, g.val[2] + 1)
    /\ \A g \in GroupsOf(st.res) \ GroupsOf(res) :
          /\ g.name \in GroupNames(st.node)
          /\ \E h \in GroupsOf(res) : h.name = g.name

\* C28: failed explorations leave no trace.  A state that waits in the
\* frontier is never changed; the partial result of every state a call
\* pushes, and the result it returns, hold the groups of the state the call
\* ran on and those inserted at a GroupEnd during the call, nothing else; so
\* the groups of a match are those inserted along the path from the first
\* state to the one that returned it.
C28_NoTrace ==
    [][ /\ (pc = "exec" /\ frontier # << >> /\ pc' = "exec")
            => IsSuffix(Tail(frontier), frontier')
        /\ popped' # popped =>
              LET st == popped'[Len(popped')].state
                  out == Outcome(st)
              IN  /\ out.err = "" =>
                        /\ out.res # None => OnlyInserted(st, out.res)
                        /\ \A k \in 1..Len(out.fr) : OnlyInserted(st, out.fr[k].res)
                  /\ best_match' # best_match => best_match' = out.res
      ]_vars

\* C28 witness: the returned match holds a group, and a state explored
\* from the frontier after another was pushed over it held that group with
\* another extent without producing the match.
C28_Witness ==
    /\ Returned
    /\ \E g \in GroupsOf(best_match) :
          \E i \in 1..Len(popped) :
              /\ popped[i].depth >= 1
              /\ \E h \in GroupsOf(popped[i].state.res) :
                    h.name = g.name /\ h.val # g.val


(***************************************************************************)
(* The programs the parser returns (under SpecParse).                      *)
(***************************************************************************)

\* C29: a program returned by a successful parse_str is well-formed: no
\* node is Poisoned, no literal is the empty string, no group has an empty
\* body and no alternation has an empty right side.
C29_WellFormed ==
    parser.status = "ok" =>
        \A v \in Nodes(program) :
            /\ v.t # "Poisoned"
            /\ v.t = "Word" => v.w # << >>
            /\ v.t = "Group" => v.group # << >>
            /\ v.t = "Or" => v.right # << >>

\* The number of groups still open after the characters i.. of a pattern
\* in which every '(' opens a group and every ')' closes one (no escape, no
\* class, no group name), `open` of them being open before.
RECURSIVE OpenGroups(_, _, _)
OpenGroups(p, i, open) ==
    IF i > Len(p) THEN open
    ELSE IF p[i] = "(" THEN OpenGroups(p, i + 1, open + 1)
    ELSE IF p[i] = ")" /\ open > 0 THEN OpenGroups(p, i + 1, open - 1)
    ELSE OpenGroups(p, i + 1, open)

\* C30: groups must be closed: parse_str succeeds only on a pattern in which
\* every '(' is closed by a ')'; a pattern that ends inside a group is a
\* parse error.
C30_GroupsClosed ==
    (parser.status = "ok" /\ Chars(pattern) \cap {"\\", "[", "<"} = {}) =>
        OpenGroups(pattern, 1, 0) = 0

=============================================================================
